---- MODULE Spec2Model ----
(***************************************************************************)
(* Model of the RTR archiver (src/code/rtr.py): the sequential run of      *)
(* RTR.archive_activities over the activity list, one fetch per step, and  *)
(* the pure location lookup RTR.get_description.                           *)
(*                                                                         *)
(* Representation.  A Python string the code takes apart (split, slice,    *)
(* lstrip, replace, join, +) is a sequence of symbols, one symbol per      *)
(* character; the separator '/toepasbareRegels/' that the code only ever   *)
(* splits on is one symbol.  Strings the code only passes along (dates,    *)
(* names, document bodies) are TLA+ strings.  A JSON object is a function  *)
(* from key strings to values, a missing key is a key outside its DOMAIN,  *)
(* a JSON list is a sequence.  A Python dict that is iterated is a         *)
(* sequence of <<key, value>> pairs in insertion order.                    *)
(***************************************************************************)
EXTENDS Integers, Sequences, FiniteSets, TLC

(***************************************************************************)
(* Bounds of the model.                                                    *)
(***************************************************************************)
NumActivities == 2
MaxObjects == 2
MaxWerkzaamheden == 2
MaxIdLen == 3

(***************************************************************************)
(* Python string and list primitives.                                      *)
(***************************************************************************)
Last(s) == s[Len(s)]

Positions(s, sep) == {p \in 1..Len(s) : s[p] = sep}

Min(S) == CHOOSE m \in S : \A n \in S : m <= n

RECURSIVE Split(_, _)
Split(s, sep) ==
    IF Positions(s, sep) = {}
    THEN <<s>>
    ELSE LET p == Min(Positions(s, sep))
         IN  <<SubSeq(s, 1, p - 1)>> \o Split(SubSeq(s, p + 1, Len(s)), sep)

LastTwo(s) == IF Len(s) <= 2 THEN s ELSE SubSeq(s, Len(s) - 1, Len(s))

RECURSIVE LStrip(_, _)
LStrip(s, ch) ==
    IF s # <<>> /\ Head(s) = ch THEN LStrip(Tail(s), ch) ELSE s

Replace(s, old, new) == [p \in 1..Len(s) |-> IF s[p] = old THEN new ELSE s[p]]

RECURSIVE Join(_, _)
Join(list, sep) ==
    IF list = <<>> THEN <<>>
    ELSE IF Len(list) = 1 THEN list[1]
    ELSE list[1] \o sep \o Join(Tail(list), sep)

DictKeys(d) == {d[p][1] : p \in 1..Len(d)}

DictSet(d, key, value) ==
    IF key \in DictKeys(d)
    THEN [p \in 1..Len(d) |-> IF d[p][1] = key THEN <<key, value>> ELSE d[p]]
    ELSE Append(d, <<key, value>>)

(***************************************************************************)
(* String literals of the source.                                          *)
(***************************************************************************)
HDSR == <<"n","l",".","i","m","o","w","-","w","s","0","6","3","6",".",
          "a","m","b","t","s","g","e","b","i","e","d",".","H","D","S","R">>

AmbtsgebiedHDSR == <<"a","m","b","t","s","g","e","b","i","e","d"," ","H","D","S","R">>

NullPrefix == <<"n","u","l","l",":"," ">>

(***************************************************************************)
(* RTR.get_description / RTR.match_descriptions.                           *)
(***************************************************************************)
get_description_no_sentinel(geo, url) ==
    LET index == LastTwo(Last(Split(url, ".")))
        clean_index == LStrip(index, "0")
    IN  IF clean_index \in DOMAIN geo THEN geo[clean_index] ELSE NullPrefix \o url

get_description(geo, url) ==
    IF url = HDSR
    THEN AmbtsgebiedHDSR
    ELSE LET index == LastTwo(Last(Split(url, ".")))
             clean_index == LStrip(index, "0")
         IN  IF clean_index \in DOMAIN geo THEN geo[clean_index] ELSE NullPrefix \o url

match_descriptions(geo, identifications) ==
    [p \in 1..Len(identifications) |-> get_description(geo, identifications[p])]

(***************************************************************************)
(* Literals of the classification (lines 124-132, 159).                    *)
(***************************************************************************)
Conclusie == <<"C","o","n","c","l","u","s","i","e">>

Melding == <<"M","e","l","d","i","n","g">>

AanvraagVergunning ==
    <<"A","a","n","v","r","a","a","g"," ","v","e","r","g","u","n","n","i","n","g">>

Informatie == <<"I","n","f","o","r","m","a","t","i","e">>

Indieningsvereisten ==
    <<"I","n","d","i","e","n","i","n","g","s","v","e","r","e","i","s","t","e","n">>

NullCategory == <<"n","u","l","l">>

CategoryList == <<Conclusie, Melding, AanvraagVergunning, Informatie>>

\* Python's None, the value of a function that falls off its end.
None == "<None>"

\* requests.Response.ok
Ok(status) == status < 400

(***************************************************************************)
(* The environment: what the API can answer.                               *)
(***************************************************************************)
\* The answers a fetch can get.  Where the code only asks response.ok, one
\* success and one failure stand for all; the document fetch compares the
\* status with 200, so a second success status is in its set.
Statuses == {200, 404}

DocumentStatuses == {200, 204, 404}

EmptyJson == [key \in {} |-> ""]

Opt(key, values) == {EmptyJson} \cup {key :> v : v \in values}

SeqsUpTo(S, n) == UNION {[1..m -> S] : m \in 0..n}

\* An unclassified raw type, with a space in it.
Overig == <<"X"," ","Y">>

RuleObjects ==
    {[typering |-> t, functioneleStructuurRef |-> "ref"] :
        t \in {Melding, Overig}}
    \cup
    {[typering |-> Indieningsvereisten, toestemming |-> [waarde |-> w],
      functioneleStructuurRef |-> "ref"] : w \in {AanvraagVergunning, NullCategory}}

WerkzaamheidHref(p) == <<"w", "/", ToString(p)>>

WerkzaamhedenLists ==
    {[p \in 1..m |-> [href |-> WerkzaamheidHref(p)]] : m \in 0..MaxWerkzaamheden}

Gebied07 == <<"g",".","0","0","7">>

Gebied9 == <<"g",".","9">>

LocatieLists ==
    {<<[identificatie |-> HDSR], [identificatie |-> Gebied07], [identificatie |-> Gebied9]>>}

Urns == {<<"n","l",".","a">>}

\* An activity with as many rule-management objects as the bound allows.
FullObjects ==
    [p \in 1..MaxObjects |-> [typering |-> Melding, functioneleStructuurRef |-> "ref"]]

Payload(u, l, o, d, g) == ("urn" :> u) @@ ("_links" :> l) @@ o @@ d @@ g

\* The activity payloads: every list of rule-management objects, every list
\* of work-items with no or all the objects, every description and location
\* list.
ActivityPayloads ==
    {Payload(u, EmptyJson, o, EmptyJson, EmptyJson) :
        u \in Urns, o \in Opt("regelBeheerObjecten", SeqsUpTo(RuleObjects, MaxObjects))}
    \cup
    {Payload(u, "werkzaamheden" :> w, o, EmptyJson, EmptyJson) :
        u \in Urns, w \in WerkzaamhedenLists, o \in Opt("regelBeheerObjecten", {FullObjects})}
    \cup
    {Payload(u, EmptyJson, EmptyJson, d, g) :
        u \in Urns, d \in Opt("omschrijving", {"A"}), g \in Opt("locaties", LocatieLists)}

SttrHref == <<"h", "/toepasbareRegels/", "i", "d", "/", "s">>

\* The applicable-rule records: an empty list, a first entry with a date and
\* no link (a key of the href path is missing), a first entry with a date and
\* a document link.
RuleRecords ==
    {     "_embedded" :> ("toepasbareRegels" :> <<>>),
     "_embedded" :> ("toepasbareRegels" :> <<("laatsteWijzigingDatum" :> "d1")>>),
     "_embedded" :> ("toepasbareRegels" :>
        <<("laatsteWijzigingDatum" :> "d2")
          @@ ("_links" :> ("sttrBestand" :> ("href" :> SttrHref)))>>)}

(***************************************************************************)
(* RTR.extract_werkzaamheden (lines 108-115).                              *)
(***************************************************************************)
extract_werkzaamheden_list(data) ==
    IF "werkzaamheden" \in DOMAIN data["_links"]
    THEN LET w == data["_links"]["werkzaamheden"]
         IN  [p \in 1..Len(w) |-> Last(Split(w[p].href, "/"))]
    ELSE <<>>

extract_werkzaamheden_unjoined(data) ==
    LET werkzaamheden_list == extract_werkzaamheden_list(data)
    IN  IF werkzaamheden_list # <<>> THEN werkzaamheden_list ELSE <<<<>>>>

extract_werkzaamheden(data) ==
    LET werkzaamheden_list == extract_werkzaamheden_list(data)
    IN  IF werkzaamheden_list # <<>>
        THEN <<Join(werkzaamheden_list, <<",", " ">>)>>
        ELSE <<<<>>>>

(***************************************************************************)
(* RTR.get_last_change_date (lines 148-154).                               *)
(***************************************************************************)
get_last_change_date(data) ==
    LET embedded == IF "_embedded" \in DOMAIN data THEN data["_embedded"] ELSE EmptyJson
        applicable_rules ==
            IF "toepasbareRegels" \in DOMAIN embedded
            THEN embedded["toepasbareRegels"] ELSE <<>>
    IN  IF applicable_rules # <<>>
        THEN IF "laatsteWijzigingDatum" \in DOMAIN applicable_rules[1]
             THEN applicable_rules[1]["laatsteWijzigingDatum"] ELSE ""
        ELSE ""

(***************************************************************************)
(* RTR.append_sttr_file (lines 156-165).  The subscript chain of line 158  *)
(* raises KeyError for a missing key, which the handler catches, and       *)
(* IndexError for an empty list, which it does not.                        *)
(***************************************************************************)
sttr_bestand_href(data) ==
    IF "_embedded" \notin DOMAIN data THEN [raises |-> "KeyError"]
    ELSE IF "toepasbareRegels" \notin DOMAIN data["_embedded"] THEN [raises |-> "KeyError"]
    ELSE LET rules == data["_embedded"]["toepasbareRegels"]
         IN  IF rules = <<>> THEN [raises |-> "IndexError"]
             ELSE IF "_links" \notin DOMAIN rules[1] THEN [raises |-> "KeyError"]
             ELSE IF "sttrBestand" \notin DOMAIN rules[1]["_links"]
                  THEN [raises |-> "KeyError"]
             ELSE IF "href" \notin DOMAIN rules[1]["_links"]["sttrBestand"]
                  THEN [raises |-> "KeyError"]
             ELSE [raises |-> "no", href |-> rules[1]["_links"]["sttrBestand"]["href"]]

append_sttr_file_ungated(sttr, urn_name, regelbeheerobject_type, data) ==
    LET got == sttr_bestand_href(data)
    IN  IF got.raises = "KeyError" THEN [raised |-> FALSE, sttr |-> sttr]
        ELSE IF got.raises = "IndexError" THEN [raised |-> TRUE, sttr |-> sttr]
        ELSE [raised |-> FALSE,
              sttr |-> DictSet(sttr,
                               urn_name \o <<"_">> \o Replace(regelbeheerobject_type, " ", "_"),
                               got.href)]

append_sttr_file(sttr, urn_name, regelbeheerobject_type, data) ==
    LET got == sttr_bestand_href(data)
    IN  IF got.raises = "KeyError" THEN [raised |-> FALSE, sttr |-> sttr]
        ELSE IF got.raises = "IndexError" THEN [raised |-> TRUE, sttr |-> sttr]
        ELSE IF regelbeheerobject_type # NullCategory
        THEN [raised |-> FALSE,
              sttr |-> DictSet(sttr,
                               urn_name \o <<"_">> \o Replace(regelbeheerobject_type, " ", "_"),
                               got.href)]
        ELSE [raised |-> FALSE, sttr |-> sttr]

(***************************************************************************)
(* RTR.get_regelbeheerobject (lines 138-146): the answer to one            *)
(* applicable-rule fetch.  A response that is not ok falls off the end of  *)
(* the function, which returns None.                                       *)
(***************************************************************************)
get_regelbeheerobject_raising(sttr, urn_name, object_type, status, data) ==
    IF Ok(status)
    THEN LET appended == append_sttr_file(sttr, urn_name, object_type, data)
         IN  [raised |-> appended.raised, sttr |-> appended.sttr,
              last_changed |-> get_last_change_date(data)]
    ELSE [raised |-> TRUE, sttr |-> sttr, last_changed |-> None]

get_regelbeheerobject(sttr, urn_name, object_type, status, data) ==
    IF Ok(status)
    THEN LET appended == append_sttr_file(sttr, urn_name, object_type, data)
         IN  [raised |-> appended.raised, sttr |-> appended.sttr,
              last_changed |-> get_last_change_date(data)]
    ELSE [raised |-> FALSE, sttr |-> sttr, last_changed |-> None]

(***************************************************************************)
(* RTR.process_individual_object, lines 130-132: the effective type.       *)
(***************************************************************************)
object_type_of(object) ==
    IF object.typering = Indieningsvereisten
    THEN object.toestemming.waarde
    ELSE object.typering

(***************************************************************************)
(* RTR.fetch_and_process_changes, lines 124-126: one pass of the loop body *)
(* after the object has been fetched.                                      *)
(***************************************************************************)
Index(list, x) == Min({p \in 1..Len(list) : list[p] = x})

update_changes_first_wins(changes, object_type, last_changed) ==
    IF object_type \in {Conclusie, Melding, AanvraagVergunning, Informatie}
       /\ changes[Index(CategoryList, object_type)] = ""
    THEN [changes EXCEPT ![Index(CategoryList, object_type)] = last_changed]
    ELSE changes

update_changes(changes, object_type, last_changed) ==
    IF object_type \in {Conclusie, Melding, AanvraagVergunning, Informatie}
    THEN [changes EXCEPT ![Index(CategoryList, object_type)] = last_changed]
    ELSE changes

(***************************************************************************)
(* RTR.update_werkingsgebied_per_activity (lines 69-75) with the helpers   *)
(* of lines 77-106.  The result is the new mapping and whether the mapping *)
(* was written to the file.                                                *)
(***************************************************************************)
extract_activity_description(json_data) ==
    IF "omschrijving" \in DOMAIN json_data THEN json_data["omschrijving"] ELSE "No description"

extract_identifications(json_data) ==
    IF "locaties" \in DOMAIN json_data
    THEN [p \in 1..Len(json_data["locaties"]) |-> json_data["locaties"][p].identificatie]
    ELSE <<>>

update_activity_mapping(mapping, activity_description, matched_descriptions) ==
    IF activity_description \in DictKeys(mapping)
    THEN [p \in 1..Len(mapping) |->
            IF mapping[p][1] = activity_description
            THEN <<activity_description, mapping[p][2] \o matched_descriptions>>
            ELSE mapping[p]]
    ELSE Append(mapping, <<activity_description, matched_descriptions>>)

update_werkingsgebied_unguarded(location, geo, mapping, json_data) ==
    [mapping |-> update_activity_mapping(
                    mapping,
                    extract_activity_description(json_data),
                    match_descriptions(geo, extract_identifications(json_data))),
     written |-> TRUE]

update_werkingsgebied_unflushed(location, geo, mapping, json_data) ==
    IF location
    THEN [mapping |-> update_activity_mapping(
                        mapping,
                        extract_activity_description(json_data),
                        match_descriptions(geo, extract_identifications(json_data))),
          written |-> FALSE]
    ELSE [mapping |-> mapping, written |-> FALSE]

update_werkingsgebied_per_activity(location, geo, mapping, json_data) ==
    IF location
    THEN [mapping |-> update_activity_mapping(
                        mapping,
                        extract_activity_description(json_data),
                        match_descriptions(geo, extract_identifications(json_data))),
          written |-> TRUE]
    ELSE [mapping |-> mapping, written |-> FALSE]


(***************************************************************************)
(* State.                                                                  *)
(***************************************************************************)
VARIABLES
    args,                        \* the flags --sttr and --location
    geo_variables,               \* self.geo_variables, the lookup table
    pc,                          \* where the run is
    act,                         \* position in self.urns of the activity in hand
    urn_name, werkzaamheden, objects, obj, changes,
                                 \* locals of archive_activity_data and
                                 \* fetch_and_process_changes for that activity
    sttr_url_per_activity,       \* self.sttr_url_per_activity
    werkingsgebied_per_activity, \* self.werkingsgebied_per_activity
    sttr_pos,                    \* position of archive_sttr_files in the dict
    sttr_call,                   \* what this step handed to write_to_file (STTR)
    werkingsgebieden_file,       \* last contents written to the locations file
    last,                        \* the fetch this step made and its answer
    fetched,                     \* history: the object fetches of the activity
    flushes,                     \* history: writes of the locations file
    qualified,                   \* history: (urn name, type) with a document
    identification, description  \* input and result of get_description

vars == <<args, geo_variables, pc, act, urn_name, werkzaamheden, objects, obj,
          changes, sttr_url_per_activity, werkingsgebied_per_activity, sttr_pos,
          sttr_call, werkingsgebieden_file, last, fetched,
          flushes, qualified,
          identification, description>>

NoCall == [made |-> FALSE]

NoFetch == [unit |-> "none", ok |-> TRUE, status |-> 200, data |-> EmptyJson, key |-> <<>>]

EmptyChanges == <<"", "", "", "">>

\* self.urns: (name, _, uri, _, activity_group, rule_reference, _) per activity
urns ==
    [a \in 1..NumActivities |->
        <<"name" \o ToString(a), "", "uri" \o ToString(a), "",
          "group" \o ToString(a), "rule" \o ToString(a), "">>]

GeoTable == (<<"7">> :> <<"P","o","l","d","e","r"," ","X">>)

InitRun ==
    /\ act = 1
    /\ urn_name = <<>>
    /\ werkzaamheden = <<>>
    /\ objects = <<>>
    /\ obj = 1
    /\ changes = EmptyChanges
    /\ sttr_url_per_activity = <<>>
    /\ werkingsgebied_per_activity = <<>>
    /\ sttr_pos = 1
    /\ sttr_call = NoCall
    /\ werkingsgebieden_file = <<>>
    /\ last = NoFetch
    /\ fetched = <<>>
    /\ flushes = 0
    /\ qualified = {}

Init ==
    /\ args \in [sttr : BOOLEAN, location : BOOLEAN]
    /\ geo_variables = GeoTable
    /\ pc = "activity"
    /\ identification = <<>>
    /\ description = <<>>
    /\ InitRun

(***************************************************************************)
(* RTR.archive_activities, lines 45-49: what follows the activity in hand. *)
(* The loop of archive_sttr_files over an empty dict makes no step.        *)
(***************************************************************************)
after_activity_always_sttr(a, sttr_flag, sttr) ==
    IF a < Len(urns) THEN "activity"
    ELSE IF sttr # <<>> THEN "sttr"
    ELSE "done"

after_activity(a, sttr_flag, sttr) ==
    IF a < Len(urns) THEN "activity"
    ELSE IF sttr_flag /\ sttr # <<>> THEN "sttr"
    ELSE "done"

\* RTR.archive_activity_data, lines 189-190
data_to_write(a, werk, chg) ==
    <<urns[a][1], urns[a][3], urns[a][5], urns[a][6]>> \o werk \o chg

(***************************************************************************)
(* RTR.process_activity (lines 51-57) up to the first applicable-rule      *)
(* fetch: get_activity_data, update_werkingsgebied_per_activity, and of    *)
(* archive_activity_data the work-item extraction and the start of         *)
(* fetch_and_process_changes.                                              *)
(***************************************************************************)
GetActivityData ==
    /\ pc = "activity"
    /\ \E status \in Statuses, response_json \in ActivityPayloads :
         /\ last' = [unit |-> "activity", ok |-> Ok(status), status |-> status,
                     data |-> EmptyJson, key |-> <<>>]
         /\ UNCHANGED <<args, geo_variables, obj, changes, sttr_url_per_activity,
                        sttr_pos, sttr_call, fetched,
                        qualified, identification, description>>
         /\ IF Ok(status)
            THEN LET loc == update_werkingsgebied_per_activity(
                                args.location, geo_variables,
                                werkingsgebied_per_activity, response_json)
                     objs == IF "regelBeheerObjecten" \in DOMAIN response_json
                             THEN response_json["regelBeheerObjecten"] ELSE <<>>
                 IN  /\ werkingsgebied_per_activity' = loc.mapping
                     /\ werkingsgebieden_file' =
                            IF loc.written THEN loc.mapping ELSE werkingsgebieden_file
                     /\ flushes' = IF loc.written THEN flushes + 1 ELSE flushes
                     /\ urn_name' = Last(Split(response_json["urn"], "."))
                     /\ werkzaamheden' = extract_werkzaamheden(response_json)
                     /\ objects' = objs
                     /\ act' = act
                     /\ pc' = IF objs = <<>> THEN "write" ELSE "objects"
            ELSE /\ act' = act + 1
                 /\ pc' = after_activity(act, args.sttr, sttr_url_per_activity)
                 /\ UNCHANGED <<urn_name, werkzaamheden, objects,
                                werkingsgebied_per_activity, werkingsgebieden_file,
                                flushes>>

(***************************************************************************)
(* One pass of the loop of fetch_and_process_changes (lines 122-126):      *)
(* process_individual_object, get_regelbeheerobject, append_sttr_file,     *)
(* get_last_change_date and the update of changes.  An exception no        *)
(* handler catches ends the run.                                           *)
(***************************************************************************)
HasDocument(data) ==
    /\ "_embedded" \in DOMAIN data
    /\ "toepasbareRegels" \in DOMAIN data["_embedded"]
    /\ Len(data["_embedded"]["toepasbareRegels"]) > 0
    /\ "_links" \in DOMAIN data["_embedded"]["toepasbareRegels"][1]
    /\ "sttrBestand" \in DOMAIN data["_embedded"]["toepasbareRegels"][1]["_links"]
    /\ "href" \in DOMAIN data["_embedded"]["toepasbareRegels"][1]["_links"]["sttrBestand"]

ProcessIndividualObject ==
    /\ pc = "objects"
    /\ \E status \in Statuses, data \in RuleRecords :
         LET object == objects[obj]
             object_type == object_type_of(object)
             got == get_regelbeheerobject(sttr_url_per_activity, urn_name,
                                          object_type, status, data)
             answer == IF Ok(status) THEN data ELSE EmptyJson
         IN  /\ last' = [unit |-> "object", ok |-> Ok(status), status |-> status,
                         data |-> answer, key |-> <<>>]
             /\ fetched' = Append(fetched, [ok |-> Ok(status), data |-> answer])
             /\ UNCHANGED <<args, geo_variables, act, urn_name, werkzaamheden, objects,
                            werkingsgebied_per_activity, sttr_pos,
                            sttr_call, werkingsgebieden_file, flushes,
                            identification, description>>
             /\ IF got.raised
                THEN /\ pc' = "aborted"
                     /\ UNCHANGED <<obj, changes, sttr_url_per_activity, qualified>>
                ELSE /\ sttr_url_per_activity' = got.sttr
                     /\ qualified' =
                            IF Ok(status) /\ HasDocument(data) /\ object_type # NullCategory
                            THEN qualified \cup {<<urn_name, object_type>>}
                            ELSE qualified
                     /\ changes' = update_changes(changes, object_type, got.last_changed)
                     /\ obj' = obj + 1
                     /\ pc' = IF obj < Len(objects) THEN "objects" ELSE "write"

(***************************************************************************)
(* RTR.archive_activity_data, lines 189-190: the row is handed to          *)
(* write_data_to_cells and process_activity returns; its locals are gone.  *)
(***************************************************************************)
WriteDataToCells ==
    /\ pc = "write"
    /\ last' = NoFetch
    /\ fetched' = <<>>
    /\ act' = act + 1
    /\ pc' = after_activity(act, args.sttr, sttr_url_per_activity)
    /\ urn_name' = <<>>
    /\ werkzaamheden' = <<>>
    /\ objects' = <<>>
    /\ obj' = 1
    /\ changes' = EmptyChanges
    /\ UNCHANGED <<args, geo_variables, sttr_url_per_activity,
                   werkingsgebied_per_activity, sttr_pos, sttr_call,
                   werkingsgebieden_file, flushes,
                   qualified, identification, description>>

(***************************************************************************)
(* One pass of the loop of RTR.archive_sttr_files (lines 193-200).         *)
(***************************************************************************)
ArchiveSttrFile ==
    /\ pc = "sttr"
    /\ \E status \in DocumentStatuses, text \in {"xml"} :
         LET key == sttr_url_per_activity[sttr_pos][1]
             url == sttr_url_per_activity[sttr_pos][2]
             identifier == Split(Split(url, "/toepasbareRegels/")[2], "/")[1]
         IN  /\ last' = [unit |-> "document", ok |-> Ok(status), status |-> status,
                         data |-> EmptyJson, key |-> key]
             /\ sttr_call' =
                    IF status = 200
                    THEN [made |-> TRUE, identifier |-> identifier, key |-> key,
                          data |-> <<<<key, <<text>>>>>>]
                    ELSE NoCall
             /\ sttr_pos' = sttr_pos + 1
             /\ pc' = IF sttr_pos < Len(sttr_url_per_activity) THEN "sttr" ELSE "done"
             /\ UNCHANGED <<args, geo_variables, act, urn_name, werkzaamheden, objects,
                            obj, changes, sttr_url_per_activity,
                            werkingsgebied_per_activity,
                            werkingsgebieden_file, fetched, flushes, qualified,
                            identification, description>>

Next == GetActivityData \/ ProcessIndividualObject \/ WriteDataToCells \/ ArchiveSttrFile

Spec == Init /\ [][Next]_vars

(***************************************************************************)
(* RTR.get_description on its own: the lookup of one identification in one *)
(* caller-supplied table.                                                  *)
(***************************************************************************)
Gebied007 ==
    <<"n","l",".","i","m","o","w","-","w","s","0","6","3","6",".",
      "g","e","b","i","e","d",".","0","0","7">>

Identifications == SeqsUpTo({"0", "7", "."}, MaxIdLen) \cup {HDSR, Gebied007}

GeoNames ==
    (<<"7">> :> <<"P","o","l","d","e","r"," ","X">>)
    @@ (<<"0">> :> <<"Z","e","r","o">>)
    @@ (<<>> :> <<"E","m","p","t","y">>)
    @@ (<<"S","R">> :> <<"S","R">>)

GeoTables == {[k \in keys |-> GeoNames[k]] : keys \in SUBSET (DOMAIN GeoNames)}

InitGeo ==
    /\ args = [sttr |-> FALSE, location |-> TRUE]
    /\ geo_variables \in GeoTables
    /\ pc = "describe"
    /\ identification \in Identifications
    /\ description = <<>>
    /\ InitRun

GetDescription ==
    /\ pc = "describe"
    /\ description' = get_description(geo_variables, identification)
    /\ pc' = "described"
    /\ UNCHANGED <<args, geo_variables, act, urn_name, werkzaamheden, objects, obj,
                   changes, sttr_url_per_activity, werkingsgebied_per_activity,
                   sttr_pos, sttr_call, werkingsgebieden_file, last, fetched,
                   flushes, qualified, identification>>

NextGeo == GetDescription

SpecGeo == InitGeo /\ [][NextGeo]_vars

(***************************************************************************)
(* Properties.                                                             *)
(***************************************************************************)
Max(S) == CHOOSE m \in S : \A n \in S : m >= n

\* The object the last step of the loop of fetch_and_process_changes fetched.
ObjectInHand == objects[obj]

EffectiveCategory(object) ==
    IF object.typering = Indieningsvereisten THEN object.toestemming.waarde
    ELSE object.typering

Classified(category) == \E c \in 1..4 : CategoryList[c] = category

SlotOf(category) == CHOOSE c \in 1..4 : CategoryList[c] = category

\* C1: a fetch that fails never ends the run.  A step that gets a failed
\* applicable-rule answer goes on to the next object of the same activity
\* (to the hand-over of the row after the last one); a step that gets a failed
\* activity answer hands over no row and goes on to the next activity in the
\* list (to the end of the loop after the last one).
C1_FailedFetchNeverAborts ==
    [][/\ (pc = "objects" /\ ~last'.ok) =>
            /\ last'.unit = "object"
            /\ act' = act /\ objects' = objects /\ obj' = obj + 1
            /\ pc' = IF obj < Len(objects) THEN "objects" ELSE "write"
       /\ (pc = "activity" /\ ~last'.ok) =>
            /\ last'.unit = "activity"
            /\ act' = act + 1
            /\ pc' \in {"activity", "sttr", "done"}
            /\ (act < NumActivities => pc' = "activity")]_vars

C1_Witness ==
    /\ pc = "objects" /\ obj = 2 /\ act = NumActivities
    /\ last.unit = "object" /\ ~last.ok

\* C2: when the applicable-rule fetch of an object fails, every one of the
\* four slots of changes holds the value it held before the object was
\* processed.
C2_FailedFetchKeepsChanges ==
    [][(pc = "objects" /\ ~last'.ok) => changes' = changes]_vars

\* C3, as stated: the row handed to write_data_to_cells has exactly 8 fields,
\* whatever the number of work items and rule-management objects.
C3_RowHasEightFields ==
    pc = "write" => Len(data_to_write(act, werkzaamheden, changes)) = 8

\* C3, amended: the row handed to write_data_to_cells has exactly 9 fields:
\* name, uri, group and rule reference, the work items as one field, and the
\* four changes.
C3_RowHasNineFields ==
    pc = "write" =>
        /\ Len(data_to_write(act, werkzaamheden, changes)) = 9
        /\ Len(werkzaamheden) = 1
        /\ Len(changes) = 4
        /\ SubSeq(data_to_write(act, werkzaamheden, changes), 1, 4)
                = <<urns[act][1], urns[act][3], urns[act][5], urns[act][6]>>
        /\ SubSeq(data_to_write(act, werkzaamheden, changes), 6, 9) = changes

C3_Witness ==
    /\ pc = "write"
    /\ Len(objects) = MaxObjects
    /\ werkzaamheden = <<Join([p \in 1..MaxWerkzaamheden |-> <<ToString(p)>>], <<",", " ">>)>>

\* C4: when all object fetches of an activity succeeded, each slot of the
\* changes handed over, in the order Conclusie, Melding, Aanvraag vergunning,
\* Informatie, holds the last-change date of the last object in list order
\* whose effective category is that of the slot, and the empty string when
\* the activity has no such object.
ObjectsOfSlot(c) ==
    {p \in 1..Len(objects) : EffectiveCategory(objects[p]) = CategoryList[c]}

ExpectedSlot(c) ==
    IF ObjectsOfSlot(c) = {} THEN ""
    ELSE get_last_change_date(fetched[Max(ObjectsOfSlot(c))].data)

C4_LastObjectOfCategoryWins ==
    (pc = "write" /\ \A p \in 1..Len(fetched) : fetched[p].ok) =>
        /\ Len(fetched) = Len(objects)
        /\ \A c \in 1..4 : changes[c] = ExpectedSlot(c)

C4_Witness ==
    /\ pc = "write"
    /\ Len(objects) = 2
    /\ EffectiveCategory(objects[1]) = EffectiveCategory(objects[2])
    /\ Classified(EffectiveCategory(objects[1]))
    /\ fetched[1].ok /\ fetched[2].ok
    /\ get_last_change_date(fetched[1].data) # get_last_change_date(fetched[2].data)

\* C5: the keys of the document index are exactly the keys
\* <urn short name>_<category with spaces as underscores> of the objects
\* whose applicable-rule fetch succeeded with a document href in the record
\* and whose effective category is not "null".
ArchiveKey(name, category) ==
    name \o <<"_">> \o [p \in 1..Len(category) |->
                            IF category[p] = " " THEN "_" ELSE category[p]]

C5_IndexKeysAreQualifiedObjects ==
    /\ DictKeys(sttr_url_per_activity) = {ArchiveKey(q[1], q[2]) : q \in qualified}
    /\ \A q \in qualified : q[2] # NullCategory
    /\ \A p, r \in 1..Len(sttr_url_per_activity) :
            sttr_url_per_activity[p][1] = sttr_url_per_activity[r][1] => p = r

C5_Witness ==
    /\ pc \in {"objects", "write"}
    /\ obj = 3
    /\ EffectiveCategory(objects[1]) = Overig
    /\ EffectiveCategory(objects[2]) = NullCategory
    /\ fetched[1].ok /\ HasDocument(fetched[1].data)
    /\ fetched[2].ok /\ HasDocument(fetched[2].data)
    /\ DictKeys(sttr_url_per_activity) = {<<"a", "_", "X", "_", "Y">>}

\* C6: a successfully fetched record without a document reference (a key of
\* the href path is missing, or the list of applicable rules is empty) skips
\* only the index entry: the run goes on, the index is unchanged, and the
\* slot of a classified object holds the extracted date.
C6_MissingDocumentIsNotFatal ==
    [][(pc = "objects" /\ last'.ok /\ ~HasDocument(last'.data)) =>
            /\ pc' = IF obj < Len(objects) THEN "objects" ELSE "write"
            /\ sttr_url_per_activity' = sttr_url_per_activity
            /\ Classified(EffectiveCategory(ObjectInHand)) =>
                    changes'[SlotOf(EffectiveCategory(ObjectInHand))]
                        = get_last_change_date(last'.data)]_vars

\* C7: without --location the location mapping stays empty and the locations
\* file is never written.
C7_LocationDisabledNoMutation ==
    ~args.location =>
        /\ werkingsgebied_per_activity = <<>>
        /\ flushes = 0
        /\ werkingsgebieden_file = <<>>

C7_Witness ==
    /\ ~args.location
    /\ pc = "write"
    /\ act = NumActivities

\* C8, as stated: the pass over the document index runs only after the last
\* activity and only with --sttr; each step fetches the next entry, a fetch
\* that succeeds hands the body to the sink under the entry's key and a fetch
\* that fails hands over nothing and goes on.
C8_SuccessfulFetchIsArchived ==
    [][/\ (pc = "sttr" \/ pc' = "sttr") => (args.sttr /\ act' = NumActivities + 1)
       /\ (pc # "sttr") => last'.unit # "document"
       /\ (pc = "sttr") =>
            /\ last'.unit = "document"
            /\ last'.key = sttr_url_per_activity[sttr_pos][1]
            /\ sttr_pos' = sttr_pos + 1
            /\ sttr_url_per_activity' = sttr_url_per_activity
            /\ pc' = IF sttr_pos < Len(sttr_url_per_activity) THEN "sttr" ELSE "done"
            /\ last'.ok => (sttr_call'.made /\ sttr_call'.key = last'.key)
            /\ ~last'.ok => ~sttr_call'.made]_vars

\* C8, amended: as above, but it is the answer with status 200 that hands
\* the body over; every other status, a success status other than 200
\* included, hands over nothing and goes on.  A run with --sttr and a
\* non-empty index does not end without the pass.
C8_Status200IsArchived ==
    [][/\ (pc = "sttr" \/ pc' = "sttr") => (args.sttr /\ act' = NumActivities + 1)
       /\ (pc # "sttr") => last'.unit # "document"
       /\ (pc # "sttr" /\ pc' = "sttr") => sttr_pos' = 1
       /\ (pc # "sttr" /\ pc' = "done" /\ args.sttr) => sttr_url_per_activity' = <<>>
       /\ (pc = "sttr") =>
            /\ last'.unit = "document"
            /\ last'.key = sttr_url_per_activity[sttr_pos][1]
            /\ sttr_pos' = sttr_pos + 1
            /\ sttr_url_per_activity' = sttr_url_per_activity
            /\ pc' = IF sttr_pos < Len(sttr_url_per_activity) THEN "sttr" ELSE "done"
            /\ last'.status = 200 =>
                    /\ sttr_call'.made
                    /\ sttr_call'.key = last'.key
                    /\ sttr_call'.data = <<<<last'.key, <<"xml">>>>>>
            /\ last'.status # 200 => ~sttr_call'.made]_vars

C8_Witness ==
    /\ pc = "done"
    /\ sttr_pos = 3
    /\ last.unit = "document" /\ last.status = 200
    /\ sttr_call.made /\ sttr_call.key = sttr_url_per_activity[2][1]

\* C9, as stated: the lookup key is the last two characters of the final
\* dot-delimited segment with one leading zero stripped.
FinalSegment(s) ==
    IF Positions(s, ".") = {} THEN s
    ELSE SubSeq(s, Max(Positions(s, ".")) + 1, Len(s))

LastTwoCharacters(s) == [p \in 1..(IF Len(s) < 2 THEN Len(s) ELSE 2) |->
                            s[Len(s) - (IF Len(s) < 2 THEN Len(s) ELSE 2) + p]]

StripOneZero(k) == IF k # <<>> /\ k[1] = "0" THEN Tail(k) ELSE k

LeadingZeros(k) == Max({n \in 0..Len(k) : \A p \in 1..n : k[p] = "0"})

StripAllZeros(k) == SubSeq(k, LeadingZeros(k) + 1, Len(k))

Resolved(key) ==
    IF identification = HDSR THEN AmbtsgebiedHDSR
    ELSE IF key \in DOMAIN geo_variables THEN geo_variables[key]
    ELSE NullPrefix \o identification

C9_OneLeadingZeroStripped ==
    pc = "described" =>
        description = Resolved(StripOneZero(LastTwoCharacters(FinalSegment(identification))))

\* C9, amended: the lookup key is the last two characters of the final
\* dot-delimited segment with all its leading zeros stripped; the fixed
\* identifier of the district resolves to its label whatever the table holds.
C9_AllLeadingZerosStripped ==
    pc = "described" =>
        description = Resolved(StripAllZeros(LastTwoCharacters(FinalSegment(identification))))

C9_Witness ==
    /\ pc = "described"
    /\ identification = Gebied007
    /\ <<"7">> \in DOMAIN geo_variables
    /\ description = <<"P","o","l","d","e","r"," ","X">>

\* C10, as stated: the locations file is written only once the objects of
\* the activity have all been processed and its row is assembled.
C10_FlushAfterRow ==
    [][flushes' # flushes => pc = "write"]_vars

\* C10, amended: with --location the mapping is extended and the file
\* written in the step that gets the activity's successful answer, once per
\* such answer, before any of its objects is fetched and before its row is
\* handed over; no other step writes the file.
C10_FlushBeforeObjects ==
    [][/\ (flushes' # flushes) <=> (args.location /\ pc = "activity" /\ last'.ok)
       /\ (flushes' # flushes) =>
            /\ flushes' = flushes + 1
            /\ last'.unit = "activity"
            /\ pc' \in {"objects", "write"}
            /\ act' = act
            /\ fetched' = <<>>
            /\ werkingsgebied_per_activity' # <<>>
            /\ werkingsgebieden_file' = werkingsgebied_per_activity'
       /\ (flushes' = flushes) =>
            /\ werkingsgebieden_file' = werkingsgebieden_file
            /\ werkingsgebied_per_activity' = werkingsgebied_per_activity]_vars

C10_Witness ==
    /\ args.location
    /\ pc = "objects" /\ obj = 1
    /\ act = NumActivities
    /\ flushes = NumActivities
    /\ Len(werkingsgebied_per_activity) = 2

TypeOK ==
    pc \in {"activity", "objects", "write", "sttr", "done", "aborted", "describe", "described"}

====
